---------------------------- MODULE Spec2Model ----------------------------
(***************************************************************************)
(* The Streamlit dashboard script exemplo_dashboard.py as a state machine. *)
(*                                                                         *)
(* One run of the script is a sequence of steps (pc holds the line the run *)
(* is at); every user interaction starts a new run from the top.  The two  *)
(* st.cache_data memo tables outlive the runs; everything else is a local  *)
(* of the run.  The files on disk are part of the state.                   *)
(***************************************************************************)
EXTENDS Integers, Sequences, FiniteSets, TLC

VARIABLES
    csv_file,              \* DATASET_CLUSTERIZADO.csv on disk: Missing or a table
    geo_file,              \* brasil_municipios.json on disk: Missing or a version
    map_cache,             \* st.cache_data entry of load_map_data(): Null or value
    data_cache,            \* st.cache_data entry of load_data(): Null or value
    map_reads,             \* completed executions of load_map_data's body
    data_reads,            \* completed executions of load_data's body
    load_data_calls,       \* calls of load_data() made by the current run
    pc,                    \* position of the current run
    geojson_brasil,        \* line 22
    df,                    \* line 99
    ufs_selecionadas,      \* line 109
    pop_range,             \* line 112
    df_filtered,           \* line 114, extended at lines 171 and 185
    metric_map,            \* line 164
    fig_map,               \* line 203: the arguments px.choropleth gets
    cidades_selecionadas,  \* line 294
    df_selected,           \* line 304
    st                     \* what the run has rendered: element |-> content

vars == <<csv_file, geo_file, map_cache, data_cache, map_reads, data_reads,
          load_data_calls, pc, geojson_brasil, df, ufs_selecionadas, pop_range,
          df_filtered, metric_map, fig_map, cidades_selecionadas, df_selected,
          st>>

caches == <<map_cache, data_cache, map_reads, data_reads>>
files  == <<csv_file, geo_file>>
locals == <<geojson_brasil, df, ufs_selecionadas, pop_range, df_filtered,
            metric_map, fig_map, cidades_selecionadas, df_selected>>

-----------------------------------------------------------------------------
(* Bounds of the model *)

MaxRows == 4         \* rows of a dataset file
MaxEnvRows == 2      \* rows of a dataset file in the specification with file changes
MaxReads == 3        \* cap of the read counters (the code keeps them at 1)
MaxGeoVersion == 2   \* distinct contents the boundary file can have

-----------------------------------------------------------------------------
(* Values *)

Null    == [none |-> TRUE]     \* a local not assigned yet, an empty cache entry
Missing == [missing |-> TRUE]  \* a file that does not exist
NaN     == "NaN"               \* the missing value of a text column

Min(a, b) == IF a <= b THEN a ELSE b

RECURSIVE SeqSum(_)
SeqSum(s) == IF s = <<>> THEN 0 ELSE Head(s) + SeqSum(Tail(s))

\* A cell of a column that holds numbers: an integer, text (the characters in
\* order) or the missing value.
IntCell(n) == [t |-> "int", v |-> n]
StrCell(s) == [t |-> "str", v |-> s]
NaNCell    == [t |-> "nan"]

\* The rows the model draws its dataset files from, as read_csv parses them:
\* cod and populacao are integer columns, Cluster holds integers and blanks.
\* The files hold every column the script reads; the rows here carry the
\* columns a step's outcome depends on and leave out pib_per_capita,
\* pct_prenatal, pct_icsap and custo_medio, which are only averaged or plotted.
RowPool ==
    << [cod |-> IntCell(3550308), mun |-> "Sao Paulo",      populacao |-> 12000000,
        taxa_mortalidade_infantil |-> 11, Cluster |-> IntCell(2)],
       [cod |-> IntCell(3304557), mun |-> "Rio de Janeiro", populacao |-> 6700000,
        taxa_mortalidade_infantil |-> 13, Cluster |-> IntCell(0)],
       [cod |-> IntCell(2201903), mun |-> "Bom Jesus",      populacao |-> 25000,
        taxa_mortalidade_infantil |-> 18, Cluster |-> IntCell(3)],
       [cod |-> IntCell(2401701), mun |-> "Bom Jesus",      populacao |-> 10000,
        taxa_mortalidade_infantil |-> 16, Cluster |-> NaNCell],
       [cod |-> IntCell(9900001), mun |-> "Vila Nova",      populacao |-> 6700000,
        taxa_mortalidade_infantil |-> 20, Cluster |-> IntCell(1)],
       [cod |-> IntCell(3509502), mun |-> "Campinas",       populacao |-> 1100000,
        taxa_mortalidade_infantil |-> 9,  Cluster |-> IntCell(7)] >>

\* The rows of RowPool at the indices of I, in the order of the pool.
RECURSIVE PickRows(_, _)
PickRows(I, i) ==
    IF i > Len(RowPool) THEN <<>>
    ELSE (IF i \in I THEN <<RowPool[i]>> ELSE <<>>) \o PickRows(I, i + 1)

\* A table (a DataFrame): its column names and its rows in index order.
Table(cols, rows) == [columns |-> cols, rows |-> rows]

CsvColumns == {"cod", "mun", "populacao", "taxa_mortalidade_infantil", "Cluster"}

DropColumn(tbl, c) ==
    Table(tbl.columns \ {c},
          [i \in DOMAIN tbl.rows |-> [f \in DOMAIN tbl.rows[i] \ {c} |-> tbl.rows[i][f]]])

\* The dataset files: up to n rows of the pool; the one-row files also
\* without the cod column (line 86 allows for it).
Datasets(n) ==
    LET withCod == {Table(CsvColumns, PickRows(I, 1)) :
                        I \in {J \in SUBSET DOMAIN RowPool : Cardinality(J) <= n}}
    IN  withCod \cup {DropColumn(d, "cod") : d \in {e \in withCod : Len(e.rows) = 1}}

\* The contents the boundary file can have.
\* The contents the dataset file takes where the files change: the first
\* rows of the pool, up to n of them.
EnvDatasets(n) ==
    {Table(CsvColumns, SubSeq(RowPool, 1, k)) : k \in 0..Min(n, Len(RowPool))}

\* One-row dataset files whose region code starts with each two-digit prefix,
\* and one whose region code has a single digit.
PrefixFiles ==
    {Table(CsvColumns,
           <<[cod |-> IntCell(c), mun |-> "Municipio", populacao |-> 1000,
              taxa_mortalidade_infantil |-> 10, Cluster |-> IntCell(0)]>>) :
        c \in {p * 100000 + 1 : p \in 10..99} \cup {7}}

GeoFiles == {[version |-> v] : v \in 1..MaxGeoVersion}

-----------------------------------------------------------------------------
(* load_map_data, lines 8-19 *)

SimplifyTolerance == 5     \* tolerance=0.005, in thousandths

\* The boundary file's content is kept abstract: which version of the file
\* was read, and whether its geometry went through simplify().
load_map_data(file) ==
    [version |-> file.version, simplified |-> TRUE, tolerance |-> SimplifyTolerance]

-----------------------------------------------------------------------------
(* load_data, lines 81-96 *)

Digits == <<"0", "1", "2", "3", "4", "5", "6", "7", "8", "9">>

\* str(n) of a non-negative integer: its decimal digits.
RECURSIVE Decimal(_)
Decimal(n) ==
    IF n < 10 THEN <<Digits[n + 1]>>
    ELSE Append(Decimal(n \div 10), Digits[(n % 10) + 1])

\* Series.astype(str) on one cell: an integer becomes its decimal text, text
\* stays what it is.
astype_str(c) == IF c.t = "int" THEN StrCell(Decimal(c.v)) ELSE c

\* Series.str[:2] on one cell: the first two characters, fewer if the text
\* is shorter.
RECURSIVE Join(_)
Join(chars) == IF chars = <<>> THEN "" ELSE Head(chars) \o Join(Tail(chars))

\* The slice taken one character late: .str[1:3].
str_slice_from_second(c) == Join(SubSeq(c.v, 2, Min(3, Len(c.v))))

str_slice2(c) == Join(SubSeq(c.v, 1, Min(2, Len(c.v))))

codigos_uf ==
    "11" :> "RO" @@ "12" :> "AC" @@ "13" :> "AM" @@ "14" :> "RR" @@ "15" :> "PA" @@
    "16" :> "AP" @@ "17" :> "TO" @@ "21" :> "MA" @@ "22" :> "PI" @@ "23" :> "CE" @@
    "24" :> "RN" @@ "25" :> "PB" @@ "26" :> "PE" @@ "27" :> "AL" @@ "28" :> "SE" @@
    "29" :> "BA" @@ "31" :> "MG" @@ "32" :> "ES" @@ "33" :> "RJ" @@ "35" :> "SP" @@
    "41" :> "PR" @@ "42" :> "SC" @@ "43" :> "RS" @@ "50" :> "MS" @@ "51" :> "MT" @@
    "52" :> "GO" @@ "53" :> "DF"

\* Series.map(dict) on one cell: the dict's value, NaN for a key it lacks.
MapDict(dict, key) == IF key \in DOMAIN dict THEN dict[key] ELSE NaN

\* Lines 87, 94, 95 on one row.
NormalizeRow(r) ==
    LET cod    == astype_str(r.cod)
        UF_Cod == str_slice2(cod)
    IN  [f \in DOMAIN r \cup {"UF_Cod", "UF"} |->
            CASE f = "cod"    -> cod
              [] f = "UF_Cod" -> UF_Cod
              [] f = "UF"     -> MapDict(codigos_uf, UF_Cod)
              [] OTHER        -> r[f]]

\* The body of load_data on the file's table.
load_data(file) ==
    IF "cod" \in file.columns
    THEN Table(file.columns \cup {"UF_Cod", "UF"},
               [i \in DOMAIN file.rows |-> NormalizeRow(file.rows[i])])
    ELSE file

-----------------------------------------------------------------------------
(* Sidebar and filter, lines 105-117 *)

\* The options without dropna().
estados_with_nan(tbl) == {tbl.rows[i].UF : i \in DOMAIN tbl.rows}

\* sorted(df['UF'].dropna().unique()): the options of the state multiselect.
\* Their order only orders the widget's list, so they are kept as a set.
estados(tbl) == {tbl.rows[i].UF : i \in DOMAIN tbl.rows} \ {NaN}

DefaultUFs == {"SP"}       \* default=['SP'], line 109

Populations(tbl) == {tbl.rows[i].populacao : i \in DOMAIN tbl.rows}

pop_min(tbl) == CHOOSE p \in Populations(tbl) : \A q \in Populations(tbl) : p <= q
pop_max(tbl) == CHOOSE p \in Populations(tbl) : \A q \in Populations(tbl) : p >= q

\* The positions of the slider the model tries: any pair lo <= hi of
\* populations present in the table (all lie in pop_min..pop_max).
SliderRanges(tbl) ==
    {r \in [min : Populations(tbl), max : Populations(tbl)] : r.min <= r.max}

\* An empty selection read as "no restriction".
isin_or_none_selected(v, values) == values = {} \/ v \in values

\* Series.isin(values) and Series.between(left, right) on one cell.
isin(v, values) == v \in values

\* between with inclusive="neither".
between_exclusive(x, left, right) == left < x /\ x < right

between(x, left, right) == left <= x /\ x <= right

\* Lines 114-117: boolean indexing builds a new table of the rows the mask
\* keeps, in their order.
FilterTable(tbl, ufs, range) ==
    LET keep(r) == isin(r.UF, ufs) /\ between(r.populacao, range.min, range.max)
    IN  Table(tbl.columns, SelectSeq(tbl.rows, keep))

-----------------------------------------------------------------------------
(* KPIs, lines 137-144 *)

Column(tbl, c) == [i \in DOMAIN tbl.rows |-> tbl.rows[i][c]]

\* Series.sum(): 0 on no rows.  Series.mean(): NaN on no rows (rounded down
\* here, the model has no fractions).
series_sum(xs) == IntCell(SeqSum(xs))

series_mean(xs) == IF xs = <<>> THEN NaNCell ELSE IntCell(SeqSum(xs) \div Len(xs))

-----------------------------------------------------------------------------
(* Map tab, lines 151-237 *)

labels ==
    "Cluster" :> "Cluster (Grupos Semelhantes)" @@
    "taxa_mortalidade_infantil" :> "Taxa de Mortalidade Infantil" @@
    "pib_per_capita" :> "PIB per Capita (R$)" @@
    "pct_prenatal" :> "Cobertura de Pre-Natal (%)" @@
    "pct_icsap" :> "Internacoes Sensiveis (ICSAP %)"

nomes_clusters_tab1 ==
    IntCell(2) :> "Riqueza Desequilibrada" @@
    IntCell(0) :> "Eficiente (Saude/Seguranca Alta)" @@
    IntCell(3) :> "Vulneravel (Mortalidade Alta)" @@
    IntCell(1) :> "Crise de Gestao (ICSAP Alto)"

color_map_custom ==
    "Riqueza Desequilibrada" :> "#f1c40f" @@
    "Eficiente (Saude/Seguranca Alta)" :> "#2ecc71" @@
    "Vulneravel (Mortalidade Alta)" :> "#e74c3c" @@
    "Crise de Gestao (ICSAP Alto)" :> "#e67e22"

Some(x) == [some |-> x]

\* Line 171: the cod column of the filtered table, coerced to text again.
CoerceCod(tbl) ==
    Table(tbl.columns \cup {"cod"},
          [i \in DOMAIN tbl.rows |-> [tbl.rows[i] EXCEPT !.cod = astype_str(@)]])

\* Line 185: a new column Cluster_Nome, the tab's names mapped over Cluster.
AddClusterNome(tbl) ==
    Table(tbl.columns \cup {"Cluster_Nome"},
          [i \in DOMAIN tbl.rows |->
              [f \in DOMAIN tbl.rows[i] \cup {"Cluster_Nome"} |->
                  IF f = "Cluster_Nome"
                  THEN MapDict(nomes_clusters_tab1, tbl.rows[i].Cluster)
                  ELSE tbl.rows[i][f]]])

\* Lines 174-200: the three locals the branch on the metric sets.
ColorLocals(metric) ==
    IF metric = "Cluster"
    THEN [coluna_cor |-> "Cluster_Nome", escala |-> Null,
          color_map_custom |-> color_map_custom]
    ELSE [coluna_cor |-> metric, escala |-> Some("Reds"),
          color_map_custom |-> Null]

\* The call without the two conditionals of lines 213-214.
choropleth_args_both(metric) ==
    LET l == ColorLocals(metric)
    IN  [color                  |-> l.coluna_cor,
         color_continuous_scale |-> Some("Reds"),
         color_discrete_map     |-> color_map_custom,
         title                  |-> "Mapa de " \o labels[metric] \o " por Municipio"]

\* Lines 203-217: the arguments of px.choropleth that depend on the metric
\* (its data is df_filtered).
choropleth_args(metric) ==
    LET l == ColorLocals(metric)
    IN  [color                  |-> l.coluna_cor,
         color_continuous_scale |-> IF metric # "Cluster" THEN l.escala ELSE Null,
         color_discrete_map     |-> IF metric = "Cluster" THEN l.color_map_custom ELSE Null,
         title                  |-> "Mapa de " \o labels[metric] \o " por Municipio"]

-----------------------------------------------------------------------------
(* Raw data tab, lines 267-272 *)

Tab3Columns == {"cod", "mun", "UF", "populacao", "taxa_mortalidade_infantil"}

\* tbl[[...]]: the listed columns of every row.
Project(tbl, cols) ==
    Table(cols, [i \in DOMAIN tbl.rows |-> [f \in cols |-> tbl.rows[i][f]]])

-----------------------------------------------------------------------------
(* Comparison tab, lines 274-360 *)

MaxSelections == 3         \* max_selections=3, line 297

nomes_clusters_tab4 ==
    IntCell(2) :> "2 - Riqueza Desequilibrada" @@
    IntCell(0) :> "0 - Eficiente (Saude/Seguranca Alta)" @@
    IntCell(3) :> "3 - Vulneravel (Mortalidade Alta)" @@
    IntCell(1) :> "1 - Crise de Gestao (ICSAP Alto)"

SemClassificacao == "Sem Classificacao"

\* Series.fillna(value) on one cell of a text column.
fillna(v, value) == IF v = NaN THEN value ELSE v

\* Lines 278-291: a copy of df with the columns nome_exibicao and Cluster_Texto.
df_comp(tbl) ==
    Table(tbl.columns \cup {"nome_exibicao", "Cluster_Texto"},
          [i \in DOMAIN tbl.rows |->
              [f \in DOMAIN tbl.rows[i] \cup {"nome_exibicao", "Cluster_Texto"} |->
                  CASE f = "nome_exibicao" -> tbl.rows[i].mun
                    [] f = "Cluster_Texto" ->
                         fillna(MapDict(nomes_clusters_tab4, tbl.rows[i].Cluster),
                                SemClassificacao)
                    [] OTHER -> tbl.rows[i][f]]])

\* Line 296: the options of the municipality multiselect.
nome_options(comp) == {comp.rows[i].nome_exibicao : i \in DOMAIN comp.rows}

\* Line 304.
SelectCidades(comp, cidades) ==
    LET keep(r) == isin(r.nome_exibicao, cidades)
    IN  Table(comp.columns, SelectSeq(comp.rows, keep))

\* Line 323: the transposed table has one column per row of df_selected,
\* headed by its nome_exibicao.
tabela_comp(sel) ==
    [i \in DOMAIN sel.rows |->
        [Municipio |-> sel.rows[i].nome_exibicao,
         Cluster   |-> sel.rows[i].Cluster_Texto,
         Populacao |-> sel.rows[i].populacao]]
-----------------------------------------------------------------------------
(* The runs of the script *)

\* st.<element>(content): one more element on the page.
Render(element, content) == st' = (element :> content) @@ st

\* An exception nothing catches ends the run; Streamlit shows it.
Raise(exception) ==
    /\ pc' = "error"
    /\ Render("exception", exception)

\* A user interaction (or the first page load) runs the script from the top,
\* in a fresh namespace.
Rerun ==
    /\ pc \in {"idle", "done", "stopped", "error"}
    /\ pc' = "L22"
    /\ geojson_brasil' = Null /\ df' = Null /\ ufs_selecionadas' = Null
    /\ pop_range' = Null /\ df_filtered' = Null /\ metric_map' = Null
    /\ fig_map' = Null /\ cidades_selecionadas' = Null /\ df_selected' = Null
    /\ st' = <<>>
    /\ load_data_calls' = 0
    /\ UNCHANGED <<caches, files>>

\* Lines 8-22 and 25-78: geojson_brasil = load_map_data() through the memo
\* table of st.cache_data, then the page configuration and style.
LoadMapData ==
    /\ pc = "L22"
    /\ IF map_cache # Null
       THEN /\ geojson_brasil' = map_cache
            /\ pc' = "L99"
            /\ Render("style", "css")
            /\ UNCHANGED <<map_cache, map_reads>>
       ELSE IF geo_file = Missing
       THEN /\ Raise("DataSourceError")
            /\ UNCHANGED <<geojson_brasil, map_cache, map_reads>>
       ELSE /\ map_reads < MaxReads
            /\ map_cache' = load_map_data(geo_file)
            /\ map_reads' = map_reads + 1
            /\ geojson_brasil' = map_cache'
            /\ pc' = "L99"
            /\ Render("style", "css")
    /\ UNCHANGED <<files, data_cache, data_reads, load_data_calls, df,
                   ufs_selecionadas, pop_range, df_filtered, metric_map, fig_map,
                   cidades_selecionadas, df_selected>>

\* load_data without the memo table: every call reads the file.
LoadData_NoMemo ==
    /\ pc = "L99"
    /\ load_data_calls' = load_data_calls + 1
    /\ IF csv_file = Missing
       THEN /\ Render("error", "Arquivo 'DATASET_MESTRE_FINAL.csv' nao encontrado.")
            /\ pc' = "stopped"
            /\ UNCHANGED <<df, data_cache, data_reads>>
       ELSE /\ data_reads < MaxReads
            /\ data_cache' = load_data(csv_file)
            /\ data_reads' = data_reads + 1
            /\ df' = data_cache'
            /\ pc' = "L105"
            /\ UNCHANGED st
    /\ UNCHANGED <<files, map_cache, map_reads, geojson_brasil,
                   ufs_selecionadas, pop_range, df_filtered, metric_map, fig_map,
                   cidades_selecionadas, df_selected>>

\* The except branch without st.stop(): the run goes on after the message.
LoadData_NoStop ==
    /\ pc = "L99"
    /\ load_data_calls' = load_data_calls + 1
    /\ IF data_cache # Null
       THEN /\ df' = data_cache
            /\ pc' = "L105"
            /\ UNCHANGED <<data_cache, data_reads, st>>
       ELSE IF csv_file = Missing
       THEN /\ Render("error", "Arquivo 'DATASET_MESTRE_FINAL.csv' nao encontrado.")
            /\ pc' = "L105"
            /\ UNCHANGED <<df, data_cache, data_reads>>
       ELSE /\ data_reads < MaxReads
            /\ data_cache' = load_data(csv_file)
            /\ data_reads' = data_reads + 1
            /\ df' = data_cache'
            /\ pc' = "L105"
            /\ UNCHANGED st
    /\ UNCHANGED <<files, map_cache, map_reads, geojson_brasil,
                   ufs_selecionadas, pop_range, df_filtered, metric_map, fig_map,
                   cidades_selecionadas, df_selected>>

\* Lines 81-102: df = load_data() through the memo table, inside the
\* try/except that reports a missing file and stops the run.
LoadData ==
    /\ pc = "L99"
    /\ load_data_calls' = load_data_calls + 1
    /\ IF data_cache # Null
       THEN /\ df' = data_cache
            /\ pc' = "L105"
            /\ UNCHANGED <<data_cache, data_reads, st>>
       ELSE IF csv_file = Missing
       THEN /\ Render("error", "Arquivo 'DATASET_MESTRE_FINAL.csv' nao encontrado.")
            /\ pc' = "stopped"
            /\ UNCHANGED <<df, data_cache, data_reads>>
       ELSE /\ data_reads < MaxReads
            /\ data_cache' = load_data(csv_file)
            /\ data_reads' = data_reads + 1
            /\ df' = data_cache'
            /\ pc' = "L105"
            /\ UNCHANGED st
    /\ UNCHANGED <<files, map_cache, map_reads, geojson_brasil,
                   ufs_selecionadas, pop_range, df_filtered, metric_map, fig_map,
                   cidades_selecionadas, df_selected>>

\* Lines 105-117: the two sidebar widgets and the filter.  The widgets hand
\* back their default on a session's first run and the user's choice later.
Sidebar ==
    /\ pc = "L105"
    /\ IF "UF" \notin df.columns
       THEN /\ Raise("KeyError: 'UF'")
            /\ UNCHANGED <<ufs_selecionadas, pop_range, df_filtered>>
       ELSE IF ~ (DefaultUFs \subseteq estados(df))
       THEN /\ Raise("StreamlitAPIException: default not in options")
            /\ UNCHANGED <<ufs_selecionadas, pop_range, df_filtered>>
       ELSE \E ufs \in SUBSET estados(df), range \in SliderRanges(df) :
            /\ ufs_selecionadas' = ufs
            /\ pop_range' = range
            /\ df_filtered' = FilterTable(df, ufs, range)
            /\ Render("sidebar", [estados |-> estados(df),
                                  pop_min |-> pop_min(df), pop_max |-> pop_max(df)])
            /\ pc' = "L119"
    /\ UNCHANGED <<files, caches, load_data_calls, geojson_brasil, df,
                   metric_map, fig_map, cidades_selecionadas, df_selected>>

\* Lines 119-146: header, title and the four KPIs.
Kpis ==
    /\ pc = "L119"
    /\ Render("kpis",
              [filtrados  |-> Len(df_filtered.rows),
               populacao  |-> series_sum(Column(df_filtered, "populacao")),
               mortalidade |->
                   series_mean(Column(df_filtered, "taxa_mortalidade_infantil"))])
    /\ pc' = "L151"
    /\ UNCHANGED <<files, caches, load_data_calls, locals>>

\* The two assignments landing in df as well, as if df_filtered were a view
\* of it.
Tab1_WriteThrough ==
    /\ pc = "L151"
    /\ \E metric \in DOMAIN labels :
        /\ metric_map' = metric
        /\ df_filtered' = IF metric = "Cluster"
                          THEN AddClusterNome(CoerceCod(df_filtered))
                          ELSE CoerceCod(df_filtered)
        /\ df' = IF metric = "Cluster" THEN AddClusterNome(CoerceCod(df))
                                       ELSE CoerceCod(df)
        /\ fig_map' = choropleth_args(metric)
        /\ Render("fig_map", fig_map')
    /\ pc' = "L239"
    /\ UNCHANGED <<files, caches, load_data_calls, geojson_brasil,
                   ufs_selecionadas, pop_range, cidades_selecionadas, df_selected>>

\* Lines 151-237: the metric selectbox, the two assignments to df_filtered
\* and the choropleth.
Tab1 ==
    /\ pc = "L151"
    /\ \E metric \in DOMAIN labels :
        /\ metric_map' = metric
        /\ df_filtered' = IF metric = "Cluster"
                          THEN AddClusterNome(CoerceCod(df_filtered))
                          ELSE CoerceCod(df_filtered)
        /\ fig_map' = choropleth_args(metric)
        /\ Render("fig_map", fig_map')
    /\ pc' = "L239"
    /\ UNCHANGED <<files, caches, load_data_calls, geojson_brasil, df,
                   ufs_selecionadas, pop_range, cidades_selecionadas, df_selected>>

\* Lines 239-265: the top-10 bar chart and the histogram.
Tab2 ==
    /\ pc = "L239"
    /\ Render("fig_bar", [bars |-> Min(10, Len(df_filtered.rows))])
    /\ pc' = "L267"
    /\ UNCHANGED <<files, caches, load_data_calls, locals>>

\* Lines 267-272: the table of the "Dados Brutos" tab.
Tab3 ==
    /\ pc = "L267"
    /\ Render("dataframe", Project(df_filtered, Tab3Columns))
    /\ pc' = "L274"
    /\ UNCHANGED <<files, caches, load_data_calls, locals>>

\* Lines 274-360: the comparison tab.
Tab4 ==
    /\ pc = "L274"
    /\ \E cidades \in {c \in SUBSET nome_options(df_comp(df)) :
                            Cardinality(c) <= MaxSelections} :
        /\ cidades_selecionadas' = cidades
        /\ IF cidades # {}
           THEN /\ df_selected' = SelectCidades(df_comp(df), cidades)
                /\ st' = ("tabela_comp" :> tabela_comp(df_selected')) @@
                          ("multiselect" :> nome_options(df_comp(df))) @@ st
           ELSE /\ st' = ("info" :> "Selecione os municipios") @@
                          ("multiselect" :> nome_options(df_comp(df))) @@ st
                /\ UNCHANGED df_selected
    /\ pc' = "done"
    /\ UNCHANGED <<files, caches, load_data_calls, geojson_brasil, df,
                   ufs_selecionadas, pop_range, df_filtered, metric_map, fig_map>>

-----------------------------------------------------------------------------
(* The files on disk *)

\* A file matters to a run only through the run's next read of it, and both
\* reads come after line 22 starts: every change of a file since the last run
\* is placed at the start of the run, before its first read.

\* The dataset file is deleted, created or rewritten.
CsvChanged ==
    /\ pc = "L22"
    /\ csv_file' \in ({Missing} \cup EnvDatasets(MaxEnvRows)) \ {csv_file}
    /\ UNCHANGED <<geo_file, caches, load_data_calls, pc, locals, st>>

\* The boundary file is deleted, created or rewritten.
GeoChanged ==
    /\ pc = "L22"
    /\ geo_file' \in ({Missing} \cup GeoFiles) \ {geo_file}
    /\ UNCHANGED <<csv_file, caches, load_data_calls, pc, locals, st>>

-----------------------------------------------------------------------------
(* Specifications *)

InitState ==
    /\ map_cache = Null /\ data_cache = Null
    /\ map_reads = 0 /\ data_reads = 0 /\ load_data_calls = 0
    /\ pc = "idle"
    /\ geojson_brasil = Null /\ df = Null /\ ufs_selecionadas = Null
    /\ pop_range = Null /\ df_filtered = Null /\ metric_map = Null
    /\ fig_map = Null /\ cidades_selecionadas = Null /\ df_selected = Null
    /\ st = <<>>

\* The process starts with empty memo tables; the files are whatever is on
\* disk.
Init ==
    /\ csv_file \in {Missing} \cup Datasets(MaxRows) \cup PrefixFiles
    /\ geo_file \in {Missing} \cup GeoFiles
    /\ InitState

Next ==
    \/ Rerun
    \/ LoadMapData
    \/ LoadData
    \/ Sidebar
    \/ Kpis
    \/ Tab1
    \/ Tab2
    \/ Tab3
    \/ Tab4

\* The files stay as they are.
Spec == Init /\ [][Next]_vars

InitEnv ==
    /\ csv_file \in {Missing} \cup EnvDatasets(MaxEnvRows)
    /\ geo_file \in {Missing} \cup GeoFiles
    /\ InitState

NextEnv ==
    \/ Next
    \/ CsvChanged
    \/ GeoChanged

\* The files change between the runs.
SpecEnv == InitEnv /\ [][NextEnv]_vars

-----------------------------------------------------------------------------
(* Properties *)

\* Where the current run is: df is assigned, df_filtered is assigned, the
\* map tab is through, the raw data tab is through.
Loaded   == pc \in {"L105", "L119", "L151", "L239", "L267", "L274", "done"}
Filtered == pc \in {"L119", "L151", "L239", "L267", "L274", "done"}
Mapped   == pc \in {"L239", "L267", "L274", "done"}
Listed   == pc \in {"L274", "done"}

\* The indices of the rows of df the Filter Selection admits.
Kept ==
    {i \in DOMAIN df.rows :
        /\ df.rows[i].UF \in ufs_selecionadas
        /\ pop_range.min <= df.rows[i].populacao
        /\ df.rows[i].populacao <= pop_range.max}

\* The j-th smallest of them.
NthKept(j) == CHOOSE k \in Kept : Cardinality({x \in Kept : x < k}) = j - 1

\* C1: the filtered table holds exactly the rows of the source table whose UF
\* is selected and whose population lies in [min, max], both bounds included,
\* each once and in the source's order.
C1_FilterExact ==
    Filtered =>
        /\ Len(df_filtered.rows) = Cardinality(Kept)
        /\ \A j \in DOMAIN df_filtered.rows :
              [f \in df.columns |-> df_filtered.rows[j][f]] = df.rows[NthKept(j)]

C1_Witness ==
    /\ Filtered
    /\ Len(df.rows) = 2
    /\ df.rows[1].mun = "Sao Paulo" /\ df.rows[2].mun = "Rio de Janeiro"
    /\ ufs_selecionadas = {"SP"}
    /\ pop_range = [min |-> 6700000, max |-> 12000000]
    /\ Len(df_filtered.rows) = 1
    /\ df_filtered.rows[1].mun = "Sao Paulo"

\* C2: with no state selected the filtered table is empty whatever the
\* population range, and the run goes on to its end, rendering the KPIs of
\* zero rows and every panel.
C2_EmptySelection ==
    (Filtered /\ ufs_selecionadas = {}) =>
        /\ df_filtered.rows = <<>>
        /\ pc # "done" => ENABLED (Kpis \/ Tab1 \/ Tab2 \/ Tab3 \/ Tab4)
        /\ pc \notin {"L119"} => /\ st["kpis"].filtrados = 0
                                 /\ st["kpis"].populacao = IntCell(0)
                                 /\ st["kpis"].mortalidade = NaNCell
        /\ pc = "done" => {"kpis", "fig_map", "fig_bar", "dataframe"} \subseteq DOMAIN st

C2_Witness ==
    /\ pc = "done"
    /\ ufs_selecionadas = {}
    /\ Len(df.rows) >= 2
    /\ pop_range = [min |-> pop_min(df), max |-> pop_max(df)]
    /\ st["kpis"].filtrados = 0
    /\ st["dataframe"].rows = <<>>

\* The first two decimal digits of an integer of two digits or more, as text.
RECURSIVE LeadingTwo(_)
LeadingTwo(n) == IF n < 100 THEN n ELSE LeadingTwo(n \div 10)

PrefixOfInt(n) == Digits[(LeadingTwo(n) \div 10) + 1] \o Digits[(LeadingTwo(n) % 10) + 1]

StateTableIsOneToOne ==
    /\ Cardinality(DOMAIN codigos_uf) = 27
    /\ Cardinality({codigos_uf[k] : k \in DOMAIN codigos_uf}) = 27
    /\ codigos_uf["35"] = "SP"
    /\ codigos_uf["33"] = "RJ"

\* C3: the state table has 27 prefixes and 27 distinct abbreviations, and
\* when load_data returns, every row whose region code starts with one of the prefixes has that
\* prefix's abbreviation as UF; rows with the same first two characters have
\* the same UF.
C3_StateResolution ==
    /\ StateTableIsOneToOne
    /\ (pc = "L105" /\ "cod" \in csv_file.columns) =>
          \A i \in DOMAIN df.rows :
              LET n == csv_file.rows[i].cod.v
              IN  n >= 10 =>
                  /\ PrefixOfInt(n) \in DOMAIN codigos_uf
                        => df.rows[i].UF = codigos_uf[PrefixOfInt(n)]
                  /\ \A j \in DOMAIN df.rows :
                        LET m == csv_file.rows[j].cod.v
                        IN  (m >= 10 /\ PrefixOfInt(n) = PrefixOfInt(m))
                                => df.rows[i].UF = df.rows[j].UF

C3_Witness ==
    /\ pc = "L105"
    /\ "cod" \in csv_file.columns
    /\ \E i, j \in DOMAIN df.rows :
          /\ csv_file.rows[i].cod = IntCell(3550308) /\ df.rows[i].UF = "SP"
          /\ csv_file.rows[j].cod = IntCell(3304557) /\ df.rows[j].UF = "RJ"

\* A loaded row whose prefix the state table lacks.
Unmapped(r) == r.UF_Cod \notin DOMAIN codigos_uf

InTable(tbl, cod) == \E j \in DOMAIN tbl.rows : tbl.rows[j].cod = cod

\* C4 as stated: a row with an unmapped prefix has a null UF, is in no
\* filtered result, and is in the raw listing the user is shown.
C4_InRawListing ==
    Listed =>
        \A i \in DOMAIN df.rows :
            Unmapped(df.rows[i]) =>
                /\ df.rows[i].UF = NaN
                /\ ~ InTable(df_filtered, df.rows[i].cod)
                /\ InTable(st["dataframe"], df.rows[i].cod)

\* C4, amended: loading keeps every row of the file; a row with an unmapped
\* prefix has a null UF, which the state multiselect never offers, so the row
\* is in no filtered result and not in the "Dados Brutos" table, which lists
\* df_filtered; it stays in df and is offered by the comparison tab.
C4_UnmappedExcluded ==
    /\ (Loaded /\ "UF" \in df.columns) =>
          /\ Len(df.rows) = Len(csv_file.rows)
          /\ \A i \in DOMAIN df.rows :
                /\ df.rows[i].mun = csv_file.rows[i].mun
                /\ Unmapped(df.rows[i]) => df.rows[i].UF = NaN
    /\ Filtered =>
          /\ NaN \notin ufs_selecionadas
          /\ \A i \in DOMAIN df.rows :
                Unmapped(df.rows[i]) => ~ InTable(df_filtered, df.rows[i].cod)
    /\ Listed =>
          \A i \in DOMAIN df.rows :
              Unmapped(df.rows[i]) => ~ InTable(st["dataframe"], df.rows[i].cod)
    /\ pc = "done" =>
          \A i \in DOMAIN df.rows : df.rows[i].mun \in st["multiselect"]

C4_Witness ==
    /\ pc = "done"
    /\ Len(df_filtered.rows) >= 1
    /\ \E i \in DOMAIN df.rows :
          /\ Unmapped(df.rows[i])
          /\ df.rows[i].UF = NaN
          /\ df.rows[i].mun \in cidades_selecionadas
          /\ InTable(df_selected, df.rows[i].cod)

\* C5 as stated: in the map tab's Cluster_Nome and in the comparison tab's
\* Cluster_Texto, clusters 0..3 get their fixed label and every other or
\* absent cluster gets the "unclassified" label, never a null.
C5_ClusterLabels ==
    /\ (Mapped /\ metric_map = "Cluster") =>
          \A j \in DOMAIN df_filtered.rows :
              LET r == df_filtered.rows[j]
              IN  IF r.Cluster \in DOMAIN nomes_clusters_tab1
                  THEN r.Cluster_Nome = nomes_clusters_tab1[r.Cluster]
                  ELSE r.Cluster_Nome # NaN
    /\ (pc = "done" /\ cidades_selecionadas # {}) =>
          \A j \in DOMAIN df_selected.rows :
              LET r == df_selected.rows[j]
              IN  IF r.Cluster \in DOMAIN nomes_clusters_tab4
                  THEN r.Cluster_Texto = nomes_clusters_tab4[r.Cluster]
                  ELSE r.Cluster_Texto = SemClassificacao

\* C6: the map's colour arguments follow the decision table: the cluster
\* metric colours by Cluster_Nome with the discrete palette and no continuous
\* scale, every other metric colours by itself with the scale "Reds" and no
\* palette; exactly one of the two is set, and the metric has a legend title.
C6_ColorDecision ==
    Mapped =>
        /\ metric_map \in DOMAIN labels
        /\ labels[metric_map] # ""
        /\ fig_map.title = "Mapa de " \o labels[metric_map] \o " por Municipio"
        /\ IF metric_map = "Cluster"
           THEN /\ fig_map.color = "Cluster_Nome"
                /\ "Cluster_Nome" \in df_filtered.columns
                /\ fig_map.color_discrete_map = color_map_custom
                /\ fig_map.color_continuous_scale = Null
           ELSE /\ fig_map.color = metric_map
                /\ fig_map.color_continuous_scale = Some("Reds")
                /\ fig_map.color_discrete_map = Null
        /\ (fig_map.color_discrete_map = Null) # (fig_map.color_continuous_scale = Null)

C6_Witness ==
    /\ Mapped
    /\ metric_map = "Cluster"
    /\ fig_map.color_discrete_map = color_map_custom
    /\ Len(df_filtered.rows) >= 1

\* C7: whatever the run has done, df is the table load_data returned for the
\* file, and the filter's output is a function of that table and the Filter
\* Selection alone.
C7_SourceUnmodified ==
    /\ Loaded => /\ df = data_cache
                 /\ df = load_data(csv_file)
    /\ pc = "L119" =>
          df_filtered = FilterTable(load_data(csv_file), ufs_selecionadas, pop_range)

C7_Witness ==
    /\ pc = "done"
    /\ metric_map = "Cluster"
    /\ Len(df_filtered.rows) >= 1
    /\ "Cluster_Nome" \in df_filtered.columns
    /\ "Cluster_Nome" \notin df.columns
    /\ df = data_cache

\* C8: each loader's body completes at most once in the process; a memo
\* entry, once written, never changes, whatever happens to the files; every
\* run's geojson_brasil and df are the memo entries.
C8_LoadedOnce ==
    /\ [](/\ map_reads <= 1 /\ data_reads <= 1
          /\ (map_reads = 1) = (map_cache # Null)
          /\ (data_reads = 1) = (data_cache # Null))
    /\ [][/\ map_cache # Null => map_cache' = map_cache
          /\ data_cache # Null => data_cache' = data_cache
          /\ geojson_brasil' # Null => geojson_brasil' = map_cache'
          /\ df' # Null => df' = data_cache']_vars

C8_Witness ==
    /\ pc = "L105"
    /\ data_reads = 1 /\ map_reads = 1
    /\ csv_file # Missing
    /\ data_cache # load_data(csv_file)
    /\ df = data_cache
    /\ geo_file # Missing
    /\ map_cache # load_map_data(geo_file)
    /\ geojson_brasil = map_cache

\* What a run can put on the page after line 102.
Controls ==
    {"sidebar", "kpis", "fig_map", "fig_bar", "dataframe", "multiselect",
     "tabela_comp", "info"}

\* C9: a run whose load_data call finds no file (and no memo entry) shows the
\* error and stops with no control, KPI, chart or table on the page; a run
\* calls load_data at most once; nothing is on the page unless both loads
\* completed.
C9_MissingFileFatal ==
    /\ load_data_calls <= 1
    /\ (load_data_calls = 1 /\ data_cache = Null) =>
          /\ pc = "stopped"
          /\ csv_file = Missing
    /\ ("error" \in DOMAIN st) = (pc = "stopped")
    /\ pc = "stopped" =>
          /\ DOMAIN st \cap Controls = {}
          /\ df = Null
          /\ ~ ENABLED (LoadMapData \/ LoadData \/ Sidebar \/ Kpis \/ Tab1 \/ Tab2 \/ Tab3 \/ Tab4)
    /\ DOMAIN st \cap Controls # {} =>
          /\ geojson_brasil # Null /\ geojson_brasil = map_cache
          /\ df # Null /\ df = data_cache

C9_Witness ==
    /\ pc = "stopped"
    /\ csv_file = Missing
    /\ "error" \in DOMAIN st
    /\ geojson_brasil # Null
    /\ DOMAIN st \cap Controls = {}

\* C10 as stated: the comparison's table has at most 3 rows, one per
\* selected name.
C10_AtMostThree ==
    (pc = "done" /\ cidades_selecionadas # {}) =>
        /\ Len(df_selected.rows) <= MaxSelections
        /\ \A n \in cidades_selecionadas :
              Cardinality({i \in DOMAIN df_selected.rows :
                              df_selected.rows[i].nome_exibicao = n}) = 1
=============================================================================
